---- MODULE Spec2Model ----
(***************************************************************************)
(* Model of the Postgres external provider (src/server.go).                *)
(*                                                                         *)
(* The service keeps no state of its own: the state is what lives in the   *)
(* Postgres server (roles, memberships granted to the service user,        *)
(* databases, backend sessions) plus the position of every HTTP request    *)
(* that is currently being handled.  net/http runs each request in its own *)
(* goroutine, so the statements of different requests interleave; one step *)
(* of the model is one p.db.Exec call (one SQL statement, committed on its *)
(* own) together with the local code that follows it up to the next Exec   *)
(* or to the response.                                                     *)
(*                                                                         *)
(* Strings are sequences of one-character strings, so that TrimPrefix,     *)
(* SplitN and Sprintf are computed and not assumed.                        *)
(***************************************************************************)
EXTENDS Integers, Sequences, FiniteSets, TLC

\* ------------------------------------------------------------------ bounds
\* Longest identifier body (after the optional prefix) a caller sends.
MaxIdLen == 3
\* Most tenant backend sessions open at one time.
MaxSessions == 1

\* Requests handled at the same time (goroutines of the HTTP server).
Slots == {1, 2}

\* random.Hex(16) yields 32 hex digits; the model keeps the alphabet and
\* shortens the token to one digit of a two-digit alphabet.
HexChars == {"a", "b"}
Names == {<<c>> : c \in HexChars}
Colon == ":"
IdChars == HexChars \cup {Colon}

\* The literal "/databases/" of the resource identifier.
Prefix == <<"/", "d", "a", "t", "a", "b", "a", "s", "e", "s", "/">>

\* The pool's own backend: pid 0, connected to database "postgres".
AdminPid == 0
AdminDb == <<"p", "o", "s", "t", "g", "r", "e", "s">>

IdBodies == UNION {[1..k -> IdChars] : k \in 0..MaxIdLen}
\* Values of the form field "id" (a missing field reads as the empty string):
\* every short string, with and without the prefix.
FormIds == IdBodies \cup {Prefix \o b : b \in IdBodies}

\* ------------------------------------------------------------- pure helpers
\* strings.TrimPrefix
TrimPrefix(s, p) ==
    IF Len(s) >= Len(p) /\ SubSeq(s, 1, Len(p)) = p
    THEN SubSeq(s, Len(p) + 1, Len(s))
    ELSE s

\* strings.Index for a one-character separator; 0 when absent.
Index(s, c) ==
    IF \E k \in 1..Len(s) : s[k] = c
    THEN CHOOSE k \in 1..Len(s) : s[k] = c /\ \A j \in 1..(k - 1) : s[j] # c
    ELSE 0

\* strings.SplitN(s, sep, 2): at most two pieces, cut at the first sep.
SplitN2(s, c) ==
    IF Index(s, c) = 0
    THEN <<s>>
    ELSE <<SubSeq(s, 1, Index(s, c) - 1), SubSeq(s, Index(s, c) + 1, Len(s))>>

\* id := strings.SplitN(strings.TrimPrefix(req.FormValue("id"), "/databases/"), ":", 2)
ParseId(raw) == SplitN2(TrimPrefix(raw, Prefix), Colon)

\* The guard of dropDatabase, negated: len(id) == 2 && id[1] != ""
IdAccepted(id) == Len(id) = 2 /\ id[2] # <<>>

\* fmt.Sprintf("/databases/%s:%s", username, database)
ResourceIDNoColon(username, database) == Prefix \o username \o database
ResourceID(username, database) == Prefix \o username \o <<Colon>> \o database


\* -------------------------------------------------------------------- state
VARIABLES
    roles,      \* login roles of the server other than the service user
    grants,     \* roles the service user has been made a member of
    dbs,        \* tenant databases: [name, owner, allowconn], one per name
    sessions,   \* backend sessions: [pid, db]
    tokens,     \* role and database names random.Hex has already returned
    req         \* per slot: the request being handled and its response

vars == <<roles, grants, dbs, sessions, tokens, req>>

NoErr == [stmt |-> "", res |-> "ok"]

IdleReq ==
    [kind |-> "idle", pc |-> "idle", user |-> <<>>, db |-> <<>>, id |-> <<>>,
     log |-> <<>>, err |-> NoErr, status |-> 0, alone |-> TRUE, pre |-> ""]

Init ==
    /\ roles = {}
    /\ grants = {}
    /\ dbs = {}
    /\ sessions = {[pid |-> AdminPid, db |-> AdminDb]}
    /\ tokens = [role |-> {}, db |-> {}]
    /\ req = [i \in Slots |-> IdleReq]

\* ------------------------------------------------- the Postgres server side
\* What the server does with one statement sent by p.db.Exec.  `u` is the
\* role named in the statement, `d` the database.  The service user is a
\* superuser (it updates pg_database), so no statement fails on privileges.
DbNames == {x.name : x \in dbs}
Owned(u) == {x.name : x \in {y \in dbs : y.owner = u}}
DbOf(d) == CHOOSE x \in dbs : x.name = d
SessionsOn(d) == {s \in sessions : s.db = d}

\* Whether the server accepts the statement in the current state.
PgAccepts(stmt, u, d) ==
    CASE stmt = "createuser" -> u # <<>> /\ u \notin roles
      [] stmt = "grant"      -> u \in roles
      [] stmt = "createdb"   -> d # <<>> /\ d \notin DbNames /\ u \in roles
      [] stmt = "disallow"   -> TRUE     \* UPDATE of zero or one row
      [] stmt = "terminate"  -> TRUE     \* SELECT over zero or more rows
      [] stmt = "dropdb"     -> d \in DbNames /\ SessionsOn(d) = {}
      [] stmt = "dropuser"   -> u \in roles /\ Owned(u) = {}
      [] stmt = "select1"    -> TRUE

\* disallowConns: UPDATE pg_database SET datallowconn = FALSE WHERE datname = $1
DisallowKeeps(d) == dbs
Disallow(d) ==
    {IF x.name = d THEN [x EXCEPT !.allowconn = FALSE] ELSE x : x \in dbs}

\* disconnectConns: pg_terminate_backend of every backend on $1 but the caller's
Terminate(d) == {s \in sessions : ~(s.db = d /\ s.pid # AdminPid)}

\* The state of the server after an accepted statement.
PgRoles(stmt, u) ==
    CASE stmt = "createuser" -> roles \cup {u}
      [] stmt = "dropuser"   -> roles \ {u}
      [] OTHER               -> roles

PgGrants(stmt, u) ==
    CASE stmt = "grant"      -> grants \cup {u}
      [] stmt = "dropuser"   -> grants \ {u}   \* memberships go with the role
      [] OTHER               -> grants

PgDbs(stmt, u, d) ==
    CASE stmt = "createdb"   -> dbs \cup {[name |-> d, owner |-> u, allowconn |-> TRUE]}
      [] stmt = "dropdb"     -> {x \in dbs : x.name # d}
      [] stmt = "disallow"   -> Disallow(d)
      [] OTHER               -> dbs

PgSessions(stmt, d) ==
    CASE stmt = "terminate"  -> Terminate(d)
      [] OTHER               -> sessions

\* err of p.db.Exec: "ok" (nil), "sqlerr" (the server rejected the statement)
\* or "connerr" (the statement never reached the server: `up` is FALSE).
ExecResult(stmt, u, d, up) ==
    IF ~up THEN "connerr"
    ELSE IF PgAccepts(stmt, u, d) THEN "ok" ELSE "sqlerr"

\* p.db.Exec(stmt): the result in `res`, the server state primed.
Exec(stmt, u, d, res) ==
    /\ roles'    = IF res = "ok" THEN PgRoles(stmt, u) ELSE roles
    /\ grants'   = IF res = "ok" THEN PgGrants(stmt, u) ELSE grants
    /\ dbs'      = IF res = "ok" THEN PgDbs(stmt, u, d) ELSE dbs
    /\ sessions' = IF res = "ok" THEN PgSessions(stmt, d) ELSE sessions


\* ------------------------------------------------------------ the handlers
Active(r) == r.kind # "idle" /\ r.pc # "done"

\* `if err := p.db.Exec(...); err != nil`
FailedNever(res) == FALSE
Failed(res) == res # "ok"

\* createDatabase: the statement run next after `stmt` succeeded.
CreateOnSuccessNoGrant(stmt) ==
    CASE stmt = "createuser" -> "createdb"
      [] stmt = "grant"      -> "createdb"
      [] stmt = "createdb"   -> "done"
CreateOnSuccess(stmt) ==
    CASE stmt = "createuser" -> "grant"
      [] stmt = "grant"      -> "createdb"
      [] stmt = "createdb"   -> "done"

\* createDatabase: where the handler goes when `stmt` failed; "cleanup" is the
\* DROP USER whose result is discarded.
CreateOnErrorNoCleanup(stmt) == "done"
CreateOnError(stmt) ==
    CASE stmt = "createuser" -> "done"
      [] stmt = "grant"      -> "cleanup"
      [] stmt = "createdb"   -> "cleanup"

\* The statement createDatabase sends at each position.
CreateStmt(pc) == IF pc = "cleanup" THEN "dropuser" ELSE pc

\* The err handed to httphelper.Error: the one of the failed statement; the
\* result of the compensating DROP USER is dropped.
CreateError(r, stmt, res) ==
    IF r.pc # "cleanup" /\ Failed(res) THEN [stmt |-> stmt, res |-> res] ELSE r.err

\* The request after createDatabase ran `stmt` with result `res`.
CreateAdvance(r, stmt, res) ==
    LET main == r.pc # "cleanup"
        err2 == CreateError(r, stmt, res)
        pc2  == IF ~main THEN "done"
                ELSE IF Failed(res) THEN CreateOnError(stmt)
                ELSE CreateOnSuccess(stmt)
        ok   == pc2 = "done" /\ err2 = NoErr
    IN [r EXCEPT !.pc = pc2,
                 !.log = Append(@, [stmt |-> stmt, res |-> res]),
                 !.err = err2,
                 !.status = IF pc2 # "done" THEN 0 ELSE IF ok THEN 200 ELSE 500,
                 !.id = IF ok THEN ResourceID(r.user, r.db) ELSE <<>>]

\* dropDatabase: the statement run next after `stmt` succeeded.
DropOnSuccessDropFirst(stmt) ==
    CASE stmt = "disallow"   -> "dropdb"
      [] stmt = "dropdb"     -> "terminate"
      [] stmt = "terminate"  -> "dropuser"
      [] stmt = "dropuser"   -> "done"
DropOnSuccessNoDropUser(stmt) ==
    CASE stmt = "disallow"   -> "terminate"
      [] stmt = "terminate"  -> "dropdb"
      [] stmt = "dropdb"     -> "done"
      [] stmt = "dropuser"   -> "done"
DropOnSuccess(stmt) ==
    CASE stmt = "disallow"   -> "terminate"
      [] stmt = "terminate"  -> "dropdb"
      [] stmt = "dropdb"     -> "dropuser"
      [] stmt = "dropuser"   -> "done"

\* dropDatabase: every failure is `httphelper.Error(w, err); return`.
DropOnErrorContinue(stmt) == DropOnSuccess(stmt)
DropOnError(stmt) == "done"

\* The request after dropDatabase ran `stmt` with result `res`.
DropAdvance(r, stmt, res) ==
    LET err2 == IF Failed(res) /\ r.err = NoErr THEN [stmt |-> stmt, res |-> res] ELSE r.err
        pc2  == IF Failed(res) THEN DropOnError(stmt) ELSE DropOnSuccess(stmt)
    IN [r EXCEPT !.pc = pc2,
                 !.log = Append(@, [stmt |-> stmt, res |-> res]),
                 !.err = err2,
                 !.status = IF pc2 # "done" THEN 0 ELSE IF err2 = NoErr THEN 200 ELSE 500]

\* What the identifier names when the drop request arrives.
TargetState(u, d) ==
    IF d \notin DbNames THEN "absent"
    ELSE IF DbOf(d).owner = u /\ u \in roles /\ Owned(u) = {d} THEN "created"
    ELSE "other"

\* Slot i took a step that ran a statement of a create or a drop: every other
\* request in flight has not had the server to itself.
Stepped(i, r) ==
    [j \in Slots |->
        IF j = i THEN r
        ELSE IF Active(req[j]) /\ req[j].kind = "drop" THEN [req[j] EXCEPT !.alone = FALSE]
        ELSE req[j]]

\* POST /databases: the three tokens are drawn, CREATE USER is sent.
createDatabase(i) ==
    /\ req[i].kind = "idle"
    /\ \E username \in Names \ tokens.role, database \in Names \ tokens.db, up \in BOOLEAN :
        LET res == ExecResult("createuser", username, database, up)
            r0  == [IdleReq EXCEPT !.kind = "create", !.pc = "createuser",
                                   !.user = username, !.db = database]
        IN /\ Exec("createuser", username, database, res)
           /\ tokens' = [role |-> tokens.role \cup {username},
                         db |-> tokens.db \cup {database}]
           /\ req' = Stepped(i, CreateAdvance(r0, "createuser", res))

\* createDatabase, from GRANT on: one statement per step.
createDatabaseStep(i) ==
    /\ req[i].kind = "create"
    /\ req[i].pc \in {"grant", "createdb", "cleanup"}
    /\ \E up \in BOOLEAN :
        LET stmt == CreateStmt(req[i].pc)
            res  == ExecResult(stmt, req[i].user, req[i].db, up)
        IN /\ Exec(stmt, req[i].user, req[i].db, res)
           /\ req' = Stepped(i, CreateAdvance(req[i], stmt, res))
    /\ UNCHANGED tokens

\* DELETE /databases: the identifier is parsed and checked; a rejected one is
\* answered at once, an accepted one has disallowConns sent.
dropDatabaseOf(i, ids) ==
    /\ req[i].kind = "idle"
    /\ \E raw \in ids, up \in BOOLEAN :
        LET id == ParseId(raw)
        IN IF ~IdAccepted(id)
           THEN /\ req' = [req EXCEPT ![i] = [IdleReq EXCEPT !.kind = "drop", !.pc = "done",
                                                !.id = raw, !.status = 400,
                                                !.err = [stmt |-> "id", res |-> "invalid"]]]
                /\ UNCHANGED <<roles, grants, dbs, sessions>>
           ELSE LET res == ExecResult("disallow", id[1], id[2], up)
                    r0  == [IdleReq EXCEPT !.kind = "drop", !.pc = "disallow", !.id = raw,
                                           !.user = id[1], !.db = id[2],
                                           !.pre = TargetState(id[1], id[2])]
                IN /\ Exec("disallow", id[1], id[2], res)
                   /\ req' = Stepped(i, DropAdvance(r0, "disallow", res))
    /\ UNCHANGED tokens

\* The identifiers a client holds: the ones create hands out over the name
\* pool, one that names the service's own database, and no identifier at all.
ClientIds == {ResourceID(u, d) : u \in Names, d \in Names \cup {AdminDb}} \cup {<<>>}

dropDatabase(i) == dropDatabaseOf(i, ClientIds)
dropDatabaseAny(i) == dropDatabaseOf(i, FormIds)

\* dropDatabase, from disconnectConns on: one statement per step.
dropDatabaseStep(i) ==
    /\ req[i].kind = "drop"
    /\ req[i].pc \in {"terminate", "dropdb", "dropuser"}
    /\ \E up \in BOOLEAN :
        LET res == ExecResult(req[i].pc, req[i].user, req[i].db, up)
        IN /\ Exec(req[i].pc, req[i].user, req[i].db, res)
           /\ req' = Stepped(i, DropAdvance(req[i], req[i].pc, res))
    /\ UNCHANGED tokens

\* GET /ping: SELECT 1 and the answer.
pingStatusAlways(res) == 200
pingStatus(res) == IF Failed(res) THEN 500 ELSE 200
ping(i) ==
    /\ req[i].kind = "idle"
    /\ \E up \in BOOLEAN :
        LET res == ExecResult("select1", <<>>, <<>>, up)
        IN req' = [req EXCEPT ![i] =
                     [IdleReq EXCEPT !.kind = "ping", !.pc = "done",
                                     !.log = <<[stmt |-> "select1", res |-> res]>>,
                                     !.err = IF Failed(res)
                                             THEN [stmt |-> "select1", res |-> res]
                                             ELSE NoErr,
                                     !.status = pingStatus(res)]]
    /\ UNCHANGED <<roles, grants, dbs, sessions, tokens>>

\* The response has been written and the goroutine ends.
Respond(i) ==
    /\ req[i].pc = "done"
    /\ req' = [req EXCEPT ![i] = IdleReq]
    /\ UNCHANGED <<roles, grants, dbs, sessions, tokens>>

\* ------------------------------------------------------ the tenant clients
\* A tenant opens a session with the credentials of the database's owner.
TenantPids == 1..MaxSessions
TenantConnect(d) ==
    /\ d \in DbNames
    /\ DbOf(d).allowconn
    /\ DbOf(d).owner \in roles
    /\ \E p \in TenantPids :
        /\ p \notin {s.pid : s \in sessions}
        /\ \A q \in TenantPids : q < p => q \in {s.pid : s \in sessions}
        /\ sessions' = sessions \cup {[pid |-> p, db |-> d]}
    /\ UNCHANGED <<roles, grants, dbs, tokens, req>>

TenantDisconnect(p) ==
    /\ \E s \in sessions : s.pid = p /\ sessions' = sessions \ {s}
    /\ UNCHANGED <<roles, grants, dbs, tokens, req>>

Next ==
    \/ \E i \in Slots : createDatabase(i)
    \/ \E i \in Slots : createDatabaseStep(i)
    \/ \E i \in Slots : dropDatabase(i)
    \/ \E i \in Slots : dropDatabaseStep(i)
    \/ \E i \in Slots : ping(i)
    \/ \E i \in Slots : Respond(i)
    \/ \E d \in Names : TenantConnect(d)
    \/ \E p \in TenantPids : TenantDisconnect(p)

\* Concurrent requests, clients that send the identifiers they were given.
Spec == Init /\ [][Next]_vars

\* One request at a time, clients that send any form value.
NextSeq ==
    \/ createDatabase(1)
    \/ createDatabaseStep(1)
    \/ dropDatabaseAny(1)
    \/ dropDatabaseStep(1)
    \/ ping(1)
    \/ Respond(1)
    \/ \E d \in Names : TenantConnect(d)
    \/ \E p \in TenantPids : TenantDisconnect(p)

SpecSeq == Init /\ [][NextSeq]_vars


\* ------------------------------------------------------------------ claims
IsDone(r, kind) == r.kind = kind /\ r.pc = "done"
Stmts(log) == [k \in 1..Len(log) |-> log[k].stmt]
AllOk(log) == \A k \in 1..Len(log) : log[k].res = "ok"
CreateSeq == <<"createuser", "grant", "createdb">>
DropSeq == <<"disallow", "terminate", "dropdb", "dropuser">>

\* C1: every database has one owning role, the role exists and is granted to
\* the service user; a create answered 200 ran CREATE USER, GRANT, CREATE
\* DATABASE in that order, each with success.
C1_OwnerGranted ==
    /\ \A x \in dbs :
        /\ x.owner \in roles
        /\ x.owner \in grants
        /\ \A y \in dbs : y.name = x.name => y = x
    /\ \A i \in Slots :
        IsDone(req[i], "create") /\ req[i].status = 200
            => /\ Stmts(req[i].log) = CreateSeq
               /\ AllOk(req[i].log)

C1_Witness ==
    \E i \in Slots :
        /\ IsDone(req[i], "create") /\ req[i].status = 200
        /\ \E x \in dbs : x.name = req[i].db /\ x.owner = req[i].user
        /\ \E j \in Slots : req[j].kind = "drop" /\ Active(req[j])

\* The step in which create answers after its GRANT or its CREATE DATABASE
\* failed, and the failed entry of its log.
FailedMain(r) ==
    {k \in 1..Len(r.log) : r.log[k].stmt \in {"grant", "createdb"} /\ r.log[k].res # "ok"}
CreateReturnsFailed(i) ==
    /\ req[i].pc # "done"
    /\ IsDone(req'[i], "create")
    /\ FailedMain(req'[i]) # {}

\* C2 as stated: when create returns after a failed GRANT or CREATE DATABASE
\* the role it created is gone and the reported error is the original one.
C2_RoleGone ==
    [][\A i \in Slots :
        CreateReturnsFailed(i)
            => /\ req'[i].user \notin roles'
               /\ req'[i].status = 500
               /\ \A k \in FailedMain(req'[i]) : req'[i].err = req'[i].log[k]]_vars

\* C2 amended: the compensating DROP USER is sent exactly once, after the
\* failed statement, and its result is ignored; the role is gone when that
\* DROP USER succeeded; the reported error is the original one.
C2_RoleGoneIfDropped ==
    [][\A i \in Slots :
        CreateReturnsFailed(i)
            => LET r == req'[i]
               IN /\ Stmts(r.log) \in {<<"createuser", "grant", "dropuser">>,
                                       <<"createuser", "grant", "createdb", "dropuser">>}
                  /\ r.log[Len(r.log)].res = "ok" => r.user \notin roles'
                  /\ r.status = 500
                  /\ \A k \in FailedMain(r) : k = Len(r.log) - 1 /\ r.err = r.log[k]]_vars

C2_Witness ==
    \E i, j \in Slots :
        /\ IsDone(req[i], "create")
        /\ req[i].err.stmt = "grant"
        /\ Stmts(req[i].log) = <<"createuser", "grant", "dropuser">>
        /\ req[i].log[3].res = "ok"
        /\ req[i].user \notin roles
        /\ IsDone(req[j], "create")
        /\ req[j].err.stmt = "createdb"
        /\ Stmts(req[j].log) = <<"createuser", "grant", "createdb", "dropuser">>
        /\ req[j].log[4].res = "connerr"
        /\ req[j].user \in roles

\* The identifiers C3 calls malformed: after the prefix is stripped, the text
\* before the first ':' or the text after it is empty, or there is no ':'.
Malformed(raw) ==
    LET b == TrimPrefix(raw, Prefix)
    IN ~ \E k \in 1..Len(b) :
            /\ b[k] = Colon
            /\ \A j \in 1..(k - 1) : b[j] # Colon
            /\ k > 1
            /\ k < Len(b)

\* C3: a drop of a malformed identifier is answered 400 and sends no
\* statement.
C3_MalformedRejected ==
    \A i \in Slots :
        req[i].kind = "drop" /\ Malformed(req[i].id)
            => /\ req[i].status = 400
               /\ req[i].log = <<>>


IsPrefix(a, b) == Len(a) <= Len(b) /\ a = SubSeq(b, 1, Len(a))
AdminSession == [pid |-> AdminPid, db |-> AdminDb]
Accepted(r) == r.kind = "drop" /\ r.status # 400

\* C4: an accepted drop sends disallow, terminate, DROP DATABASE, DROP USER in
\* this order, each only after all the earlier ones succeeded, and nothing
\* after a failure; terminate spares the backend that runs it.
C4_DropOrder ==
    /\ AdminSession \in sessions
    /\ \A i \in Slots :
        Accepted(req[i])
            => /\ req[i].log # <<>>
               /\ IsPrefix(Stmts(req[i].log), DropSeq)
               /\ AllOk(SubSeq(req[i].log, 1, Len(req[i].log) - 1))
               /\ req[i].pc # "done"
                    => /\ AllOk(req[i].log)
                       /\ req[i].pc = DropSeq[Len(req[i].log) + 1]
               /\ ~AllOk(req[i].log) => req[i].pc = "done"

C4_Witness ==
    /\ \E i \in Slots :
        /\ IsDone(req[i], "drop")
        /\ Stmts(req[i].log) = DropSeq
        /\ AllOk(req[i].log)
        /\ req[i].pre = "created"
    /\ \E j \in Slots :
        /\ IsDone(req[j], "drop")
        /\ req[j].db = AdminDb
        /\ Stmts(req[j].log) = <<"disallow", "terminate", "dropdb">>

TenantSessionsOn(d) == {s \in SessionsOn(d) : s.pid # AdminPid}

\* C5: once a drop has marked an existing target database, no tenant can open
\* a session on it, and when DROP DATABASE is about to run no tenant session
\* is left on it.
C5_NoTenantSession ==
    \A i \in Slots :
        (/\ Accepted(req[i])
         /\ req[i].pre # "absent"
         /\ req[i].pc \in {"terminate", "dropdb"})
            => /\ req[i].db \in DbNames => ~DbOf(req[i].db).allowconn
               /\ ~ENABLED TenantConnect(req[i].db)
               /\ req[i].pc = "dropdb" => TenantSessionsOn(req[i].db) = {}

C5_Witness ==
    \E i \in Slots :
        /\ Accepted(req[i])
        /\ req[i].pre = "created"
        /\ req[i].pc = "dropdb"
        /\ req[i].db \in DbNames
        /\ \E s \in sessions : s.pid # AdminPid

\* The step in which drop request i answers.
DropReturns(i) ==
    /\ req[i].pc # "done"
    /\ req'[i].kind = "drop" /\ req'[i].pc = "done"

\* C6: a drop that has the server to itself and reaches it with every
\* statement answers 200 for an identifier as create left it, and then neither
\* the database nor the role exists; for an identifier whose database does not
\* exist it answers 500.
C6_DropThenGone ==
    [][\A i \in Slots :
        DropReturns(i) /\ req'[i].alone
            => /\ req'[i].pre = "created" /\ req'[i].err.res # "connerr"
                    => /\ req'[i].status = 200
                       /\ req'[i].db \notin DbNames'
                       /\ req'[i].user \notin roles'
               /\ req'[i].pre = "absent" => req'[i].status = 500]_vars

C6_Witness ==
    \E i, j \in Slots :
        /\ IsDone(req[i], "drop") /\ IsDone(req[j], "drop")
        /\ req[i].id = req[j].id
        /\ req[i].alone /\ req[j].alone
        /\ req[i].pre = "created" /\ req[i].status = 200
        /\ req[j].pre = "absent" /\ req[j].status = 500
        /\ req[j].err = [stmt |-> "dropdb", res |-> "sqlerr"]

\* C7: the identifier of a successful create has two non-empty segments, the
\* role and the database of that create, and a drop given that identifier is
\* accepted and aims at that role and that database.
C7_IdRoundTrip ==
    \A i \in Slots :
        IsDone(req[i], "create") /\ req[i].status = 200
            => /\ req[i].user # <<>> /\ req[i].db # <<>>
               /\ ParseId(req[i].id) = <<req[i].user, req[i].db>>
               /\ ~Malformed(req[i].id)
               /\ \A j \in Slots :
                    req[j].kind = "drop" /\ req[j].id = req[i].id
                        => /\ req[j].status # 400
                           /\ req[j].user = req[i].user
                           /\ req[j].db = req[i].db

C7_Witness ==
    \E i, j \in Slots :
        /\ IsDone(req[i], "create") /\ req[i].status = 200
        /\ req[j].kind = "drop" /\ req[j].id = req[i].id
        /\ req[j].pre = "created"
        /\ req[j].pc = "dropuser"

MainSeq(kind) ==
    CASE kind = "create" -> CreateSeq
      [] kind = "drop"   -> DropSeq
      [] kind = "ping"   -> <<"select1">>

\* C8: a finished request sent no statement twice; it is answered 200 exactly
\* when every statement of its sequence was sent and succeeded; a failed
\* statement other than create's compensating DROP USER is the error answered
\* with 500.
C8_NoRetryNoSwallow ==
    \A i \in Slots :
        req[i].kind \in {"create", "drop", "ping"}
            => /\ \A k, l \in 1..Len(req[i].log) :
                    req[i].log[k].stmt = req[i].log[l].stmt => k = l
               /\ req[i].pc = "done"
                    => /\ req[i].status = 200
                            <=> /\ Stmts(req[i].log) = MainSeq(req[i].kind)
                                /\ AllOk(req[i].log)
                       /\ \A k \in 1..Len(req[i].log) :
                            (/\ req[i].log[k].res # "ok"
                             /\ ~(req[i].kind = "create" /\ req[i].log[k].stmt = "dropuser"))
                                => /\ req[i].status = 500
                                   /\ req[i].err = req[i].log[k]

C8_Witness ==
    \E i, j \in Slots :
        /\ IsDone(req[i], "ping") /\ req[i].status = 500
        /\ IsDone(req[j], "create") /\ req[j].status = 500
        /\ Len(req[j].log) = 4
        /\ req[j].log[4].res # "ok"

\* C9: of the drops of one identifier at most one is answered 200; the others
\* are answered 500, and the database is gone once one was answered 200.
C9_OneDropWins ==
    \A i \in Slots :
        IsDone(req[i], "drop") /\ req[i].status = 200
            => /\ req[i].db \notin DbNames
               /\ \A j \in Slots \ {i} :
                    IsDone(req[j], "drop") /\ req[j].id = req[i].id
                        => req[j].status = 500

C9_Witness ==
    \E i, j \in Slots :
        /\ IsDone(req[i], "drop") /\ IsDone(req[j], "drop")
        /\ req[i].id = req[j].id
        /\ req[i].pre = "created" /\ req[j].pre = "created"
        /\ ~req[i].alone /\ ~req[j].alone
        /\ req[i].status = 200 /\ req[j].status = 500
        /\ Len(req[j].log) = 3

\* The step in which drop request i has a statement fail.
DropStmtFails(i) ==
    /\ req'[i].kind = "drop"
    /\ Len(req'[i].log) = Len(req[i].log) + 1
    /\ req'[i].log[Len(req'[i].log)].res # "ok"

\* C10: a failed statement of drop ends the request with 500 and nothing is
\* put back: the server is as the earlier statements left it.  For a target
\* that existed and a drop that had the server to itself: after a failure at
\* terminate or DROP DATABASE the database is still there, still closed to
\* connections, with its role; after a failure at DROP USER the database is
\* gone and the role is still there.
C10_NoCompensation ==
    [][\A i \in Slots :
        DropStmtFails(i)
            => LET r == req'[i]
                   failed == r.log[Len(r.log)].stmt
               IN /\ r.pc = "done" /\ r.status = 500
                  /\ <<roles, grants, dbs, sessions>>' = <<roles, grants, dbs, sessions>>
                  /\ r.alone /\ r.pre = "created" /\ failed \in {"terminate", "dropdb"}
                        => /\ r.db \in DbNames'
                           /\ \A x \in dbs' : x.name = r.db => ~x.allowconn
                           /\ r.user \in roles'
                  /\ r.alone /\ r.pre = "created" /\ failed = "dropuser"
                        => /\ r.db \notin DbNames'
                           /\ r.user \in roles']_vars

C10_Witness ==
    \E i, j \in Slots :
        /\ IsDone(req[i], "drop") /\ IsDone(req[j], "drop")
        /\ req[i].alone /\ req[i].pre = "created"
        /\ req[i].err.stmt = "dropdb"
        /\ req[i].db \in DbNames /\ ~DbOf(req[i].db).allowconn
        /\ req[j].alone /\ req[j].pre = "created"
        /\ req[j].err.stmt = "dropuser"
        /\ req[j].db \notin DbNames /\ req[j].user \in roles

====
